---- MODULE Spec2Model ----
(***************************************************************************)
(* The mediasoup Consumer (src/src/Consumer.ts) as a state machine.        *)
(*                                                                         *)
(* One Consumer, the Channel it sends requests on, and the worker behind   *)
(* the Channel.  An async method is two steps: the call, which runs up to  *)
(* its await (snapshot, request placed on the channel), and the            *)
(* continuation, which runs when the worker's response settles the         *)
(* request.  Notifications are dispatched by the Channel to the handler    *)
(* the Consumer registered at construction.                                *)
(***************************************************************************)
EXTENDS Integers, Sequences, FiniteSets, Bags, TLC

(* Bounds of the exploration. *)
MaxCalls == 2
MaxNotifications == 2

(* Values of the data domains. *)
Undefined == "undefined"
Null == "null"
Layers == {"L1"}
DefaultScore == "S10"
Scores == {DefaultScore, "S9"}
Priorities == {1, 2}

(* Events of the primary emitter (the Consumer itself) and of the observer. *)
PrimaryEvents ==
  {"@close", "close", "transportclose", "@producerclose", "producerclose",
   "producerpause", "producerresume", "score", "layerschange", "trace", "rtp"}
ObserverEvents == {"close", "pause", "resume", "score", "layerschange", "trace"}

(* The events that tell of the Consumer's end; these are counted.  'close' *)
(* is no event of the primary emitter: the count shows it stays so.        *)
PrimaryLifecycle == {"@close", "close", "transportclose", "@producerclose", "producerclose"}
ObserverLifecycle == {"close"}

VARIABLES
  closed,           \* this._closed
  paused,           \* this._paused
  producerPaused,   \* this._producerPaused
  priority,         \* this._priority
  score,            \* this._score
  preferredLayers,  \* this._preferredLayers
  currentLayers,    \* this._currentLayers
  listening,        \* the handler registered on this._channel is still there
  pending,          \* requests in flight, each with its caller's continuation
  notifs,           \* notifications the worker has pushed so far
  requests,         \* requests placed on the channel, all methods
  closeRequests,    \* 'consumer.close' requests placed on the channel
  emitted,          \* lifecycle events emitted on the primary emitter, by name
  observed,         \* lifecycle events emitted on the observer, by name
  removals,         \* this._channel.removeAllListeners(consumerId) calls so far
  step,             \* what the last step was and what it emitted
  scen              \* progress through the pause/producerpause scenario

vars ==
  <<closed, paused, producerPaused, priority, score, preferredLayers,
    currentLayers, listening, pending, notifs, requests, closeRequests,
    emitted, observed, removals, step, scen>>

state == <<closed, paused, producerPaused, priority, score, preferredLayers, currentLayers>>

P(e) == <<"primary", e>>
O(e) == <<"observer", e>>

(* What a step does besides emitting, where the order matters: an         *)
(* assignment to a field, the removal of the channel listener, a request.  *)
W(field) == <<"set", field>>
Unsubscribe == <<"channel", "removeAllListeners">>
Sent(method) == <<"request", method>>

IsEvent(x) == x[1] \in {"primary", "observer"}

Count(s, x) == Cardinality({i \in DOMAIN s : s[i] = x})

(* The scenario of the spec's testable property: pause() and its response, *)
(* 'producerpause', resume() and its response, 'producerresume', in this   *)
(* order from paused = producerPaused = false and with nothing in between. *)
Scenario ==
  << <<"pause", "awaiting">>, <<"pause", "resolved">>, <<"producerpause", "handled">>,
     <<"resume", "awaiting">>, <<"resume", "resolved">>, <<"producerresume", "handled">> >>

Advance(op, outcome) ==
  IF scen >= 0 /\ scen < Len(Scenario) /\ Scenario[scen + 1] = <<op, outcome>>
  THEN scen + 1
  ELSE -1

(* The bookkeeping of one step: its effects in the order of the code (the  *)
(* trail), of which the events it emits, and the requests it places on the *)
(* channel.                                                                *)
Record(op, outcome, effects, sent) ==
  /\ step' = [op |-> op, outcome |-> outcome, emit |-> SelectSeq(effects, IsEvent),
              sent |-> sent, trail |-> effects]
  /\ emitted' = [e \in PrimaryLifecycle |-> emitted[e] + Count(effects, P(e))]
  /\ observed' = [e \in ObserverLifecycle |-> observed[e] + Count(effects, O(e))]
  /\ removals' = removals + Count(effects, Unsubscribe)
  /\ requests' = requests + Len(sent)
  /\ closeRequests' = closeRequests + Count(sent, "consumer.close")
  /\ scen' = Advance(op, outcome)

Init ==
  /\ closed = FALSE
  /\ paused \in BOOLEAN
  /\ producerPaused \in BOOLEAN
  /\ priority = 1
  /\ score = DefaultScore
  /\ preferredLayers = Undefined
  /\ currentLayers = Undefined
  /\ listening = TRUE
  /\ pending = EmptyBag
  /\ notifs = 0
  /\ requests = 0
  /\ closeRequests = 0
  /\ emitted = [e \in PrimaryLifecycle |-> 0]
  /\ observed = [e \in ObserverLifecycle |-> 0]
  /\ removals = 0
  /\ step = [op |-> "constructor", outcome |-> "returned", emit |-> <<>>, sent |-> <<>>,
             trail |-> <<>>]
  /\ scen = IF ~paused /\ ~producerPaused THEN 0 ELSE -1

(* Channel.request(method, internal, data): the request goes on the wire   *)
(* and the caller's continuation, with the locals it captured, waits for   *)
(* the response.                                                           *)
Request(method, data, wasPaused) ==
  pending' = pending (+) SetToBag({[method |-> method, data |-> data, wasPaused |-> wasPaused]})

(* The part of an async method that runs before its await. *)
Call(op, method, data, wasPaused) ==
  /\ requests - closeRequests < MaxCalls
  /\ Request(method, data, wasPaused)
  /\ Record(op, "awaiting", <<>>, <<method>>)
  /\ UNCHANGED <<state, listening, notifs>>

(* The snapshot without its `|| this._producerPaused`. *)
WasPausedOwnOnly == paused

(* const wasPaused = this._paused || this._producerPaused *)
WasPaused == paused \/ producerPaused

(* close() without its `if (this._closed) return`. *)
closeUnguarded ==
  /\ closed' = TRUE
  /\ listening' = FALSE
  /\ Request("consumer.close", Undefined, FALSE)
  /\ Record("close", "returned",
                 <<W("closed"), Unsubscribe, Sent("consumer.close"), P("@close"), O("close")>>,
                 <<"consumer.close">>)
  /\ UNCHANGED <<paused, producerPaused, priority, score, preferredLayers,
                 currentLayers, notifs>>

(* close() without its this._channel.removeAllListeners(...). *)
closeKeepsListening ==
  IF closed
  THEN /\ Record("close", "returned", <<>>, <<>>)
       /\ UNCHANGED <<state, listening, pending, notifs>>
  ELSE /\ closed' = TRUE
       /\ Request("consumer.close", Undefined, FALSE)
       /\ Record("close", "returned",
                 <<W("closed"), Sent("consumer.close"), P("@close"), O("close")>>,
                 <<"consumer.close">>)
       /\ UNCHANGED <<paused, producerPaused, priority, score, preferredLayers,
                      currentLayers, listening, notifs>>

close ==
  IF closed
  THEN /\ Record("close", "returned", <<>>, <<>>)
       /\ UNCHANGED <<state, listening, pending, notifs>>
  ELSE /\ closed' = TRUE
       /\ listening' = FALSE
       /\ Request("consumer.close", Undefined, FALSE)
       /\ Record("close", "returned",
                 <<W("closed"), Unsubscribe, Sent("consumer.close"), P("@close"), O("close")>>,
                 <<"consumer.close">>)
       /\ UNCHANGED <<paused, producerPaused, priority, score, preferredLayers,
                      currentLayers, notifs>>

(* transportClosed() without its `if (this._closed) return`. *)
transportClosedUnguarded ==
  /\ closed' = TRUE
  /\ listening' = FALSE
  /\ Record("transportClosed", "returned",
                 <<W("closed"), Unsubscribe, P("transportclose"), O("close")>>, <<>>)
  /\ UNCHANGED <<paused, producerPaused, priority, score, preferredLayers,
                 currentLayers, pending, notifs>>

(* transportClosed() that tells the worker, as close() does. *)
transportClosedRequesting ==
  IF closed
  THEN /\ Record("transportClosed", "returned", <<>>, <<>>)
       /\ UNCHANGED <<state, listening, pending, notifs>>
  ELSE /\ closed' = TRUE
       /\ listening' = FALSE
       /\ Request("consumer.close", Undefined, FALSE)
       /\ Record("transportClosed", "returned",
                 <<W("closed"), Unsubscribe, Sent("consumer.close"), P("transportclose"),
                   O("close")>>,
                 <<"consumer.close">>)
       /\ UNCHANGED <<paused, producerPaused, priority, score, preferredLayers,
                      currentLayers, notifs>>

(* transportClosed() without its this._channel.removeAllListeners(...). *)
transportClosedKeepsListening ==
  IF closed
  THEN /\ Record("transportClosed", "returned", <<>>, <<>>)
       /\ UNCHANGED <<state, listening, pending, notifs>>
  ELSE /\ closed' = TRUE
       /\ Record("transportClosed", "returned",
                 <<W("closed"), P("transportclose"), O("close")>>, <<>>)
       /\ UNCHANGED <<paused, producerPaused, priority, score, preferredLayers,
                      currentLayers, listening, pending, notifs>>

transportClosed ==
  IF closed
  THEN /\ Record("transportClosed", "returned", <<>>, <<>>)
       /\ UNCHANGED <<state, listening, pending, notifs>>
  ELSE /\ closed' = TRUE
       /\ listening' = FALSE
       /\ Record("transportClosed", "returned",
                 <<W("closed"), Unsubscribe, P("transportclose"), O("close")>>, <<>>)
       /\ UNCHANGED <<paused, producerPaused, priority, score, preferredLayers,
                      currentLayers, pending, notifs>>

dump == Call("dump", "consumer.dump", Undefined, FALSE)

getStats == Call("getStats", "consumer.getStats", Undefined, FALSE)

(* pause() that sets this._paused before the await instead of after it. *)
pauseEager ==
  /\ requests - closeRequests < MaxCalls
  /\ Request("consumer.pause", Undefined, WasPaused)
  /\ paused' = TRUE
  /\ Record("pause", "awaiting", <<>>, <<"consumer.pause">>)
  /\ UNCHANGED <<closed, producerPaused, priority, score, preferredLayers, currentLayers,
                 listening, notifs>>

pause == Call("pause", "consumer.pause", Undefined, WasPaused)

resume == Call("resume", "consumer.resume", Undefined, WasPaused)

setPreferredLayers(layers) ==
  Call("setPreferredLayers", "consumer.setPreferredLayers", layers, FALSE)

setPriority(n) == Call("setPriority", "consumer.setPriority", n, FALSE)

unsetPriority == Call("unsetPriority", "consumer.setPriority", 1, FALSE)

requestKeyFrame == Call("requestKeyFrame", "consumer.requestKeyFrame", Undefined, FALSE)

enableTraceEvent == Call("enableTraceEvent", "consumer.enableTraceEvent", Undefined, FALSE)

(* The operation a pending request belongs to.  unsetPriority() sends the  *)
(* same method as setPriority(): its continuation is the same code.        *)
OpOf(method) ==
  CASE method = "consumer.close" -> "close"
    [] method = "consumer.dump" -> "dump"
    [] method = "consumer.getStats" -> "getStats"
    [] method = "consumer.pause" -> "pause"
    [] method = "consumer.resume" -> "resume"
    [] method = "consumer.setPreferredLayers" -> "setPreferredLayers"
    [] method = "consumer.setPriority" -> "setPriority"
    [] method = "consumer.requestKeyFrame" -> "requestKeyFrame"
    [] method = "consumer.enableTraceEvent" -> "enableTraceEvent"

(* What the worker may answer to a request. *)
ResponseData(method) ==
  CASE method = "consumer.setPriority" -> Priorities
    [] method = "consumer.setPreferredLayers" -> Layers \cup {Null, Undefined}
    [] OTHER -> {Undefined}

(* if (!wasPaused) this._observer.safeEmit('pause') *)
PauseEmits(wasPaused) == ~wasPaused

(* The resume() edge test without its `&& !this._producerPaused`. *)
ResumeEmitsIgnoringPeer(wasPaused, peerPaused) == wasPaused

(* if (wasPaused && !this._producerPaused) this._observer.safeEmit('resume') *)
ResumeEmits(wasPaused, peerPaused) == wasPaused /\ ~peerPaused

(* this._preferredLayers = data || undefined *)
OrUndefined(data) == IF data \in {Null, Undefined} THEN Undefined ELSE data

(* The continuations, run when the request resolves. *)
pauseResolved(r) ==
  /\ paused' = TRUE
  /\ Record("pause", "resolved",
            IF PauseEmits(r.wasPaused) THEN <<O("pause")>> ELSE <<>>, <<>>)
  /\ UNCHANGED <<closed, producerPaused, priority, score, preferredLayers, currentLayers>>

resumeResolved(r) ==
  /\ paused' = FALSE
  /\ Record("resume", "resolved",
            IF ResumeEmits(r.wasPaused, producerPaused) THEN <<O("resume")>> ELSE <<>>, <<>>)
  /\ UNCHANGED <<closed, producerPaused, priority, score, preferredLayers, currentLayers>>

setPreferredLayersResolved(data) ==
  /\ preferredLayers' = OrUndefined(data)
  /\ Record("setPreferredLayers", "resolved", <<>>, <<>>)
  /\ UNCHANGED <<closed, paused, producerPaused, priority, score, currentLayers>>

setPriorityResolved(data) ==
  /\ priority' = data
  /\ Record("setPriority", "resolved", <<>>, <<>>)
  /\ UNCHANGED <<closed, paused, producerPaused, score, preferredLayers, currentLayers>>

(* Continuations in which setPriority() keeps the priority it asked for    *)
(* instead of data.priority.                                               *)
ResolveKeepingRequested(r, data) ==
  /\ pending' = pending (-) SetToBag({r})
  /\ UNCHANGED <<listening, notifs>>
  /\ CASE r.method = "consumer.pause" -> pauseResolved(r)
       [] r.method = "consumer.resume" -> resumeResolved(r)
       [] r.method = "consumer.setPreferredLayers" -> setPreferredLayersResolved(data)
       [] r.method = "consumer.setPriority" -> setPriorityResolved(r.data)
       [] OTHER -> /\ Record(OpOf(r.method), "resolved", <<>>, <<>>)
                   /\ UNCHANGED state

(* The worker accepts the request r in flight and answers with data. *)
Resolve(r, data) ==
  /\ pending' = pending (-) SetToBag({r})
  /\ UNCHANGED <<listening, notifs>>
  /\ CASE r.method = "consumer.pause" -> pauseResolved(r)
       [] r.method = "consumer.resume" -> resumeResolved(r)
       [] r.method = "consumer.setPreferredLayers" -> setPreferredLayersResolved(data)
       [] r.method = "consumer.setPriority" -> setPriorityResolved(data)
       [] OTHER -> /\ Record(OpOf(r.method), "resolved", <<>>, <<>>)
                   /\ UNCHANGED state

(* A rejection that close() does not catch. *)
RejectUncaught(r) ==
  /\ pending' = pending (-) SetToBag({r})
  /\ Record(OpOf(r.method), "rejected", <<>>, <<>>)
  /\ UNCHANGED <<state, listening, notifs>>

(* The worker rejects the request r in flight: the await throws, the rest  *)
(* of the method does not run.  close() catches the failure.               *)
Reject(r) ==
  /\ pending' = pending (-) SetToBag({r})
  /\ Record(OpOf(r.method),
            IF r.method = "consumer.close" THEN "swallowed" ELSE "rejected", <<>>, <<>>)
  /\ UNCHANGED <<state, listening, notifs>>

(* The Channel hands a notification for this Consumer's id to the handler  *)
(* registered by _handleWorkerNotifications(), if it is still registered;  *)
(* a notification for an id with no listener is dropped.                   *)
Dispatch(event, handler) ==
  /\ notifs < MaxNotifications
  /\ notifs' = notifs + 1
  /\ UNCHANGED pending
  /\ IF listening
     THEN handler
     ELSE /\ Record(event, "dropped", <<>>, <<>>)
          /\ UNCHANGED <<state, listening>>

(* A case of the handler that breaks out without doing anything. *)
Break(event) ==
  /\ Record(event, "handled", <<>>, <<>>)
  /\ UNCHANGED <<state, listening>>

(* The 'producerclose' case emitting before it sets this._closed and       *)
(* removes the listener.                                                   *)
onProducercloseEmitsFirst ==
  IF closed
  THEN Break("producerclose")
  ELSE /\ closed' = TRUE
       /\ listening' = FALSE
       /\ Record("producerclose", "handled",
                 <<P("@producerclose"), P("producerclose"), O("close"),
                   W("closed"), Unsubscribe>>, <<>>)
       /\ UNCHANGED <<paused, producerPaused, priority, score, preferredLayers, currentLayers>>

onProducerclose ==
  IF closed
  THEN Break("producerclose")
  ELSE /\ closed' = TRUE
       /\ listening' = FALSE
       /\ Record("producerclose", "handled",
                 <<W("closed"), Unsubscribe,
                   P("@producerclose"), P("producerclose"), O("close")>>, <<>>)
       /\ UNCHANGED <<paused, producerPaused, priority, score, preferredLayers, currentLayers>>

(* if (!wasPaused) this._observer.safeEmit('pause') *)
ProducerPauseEmits(wasPaused) == ~wasPaused

(* if (wasPaused && !this._paused) this._observer.safeEmit('resume') *)
ProducerResumeEmits(wasPaused, ownPaused) == wasPaused /\ ~ownPaused

(* The 'producerpause' case without its `if (this._producerPaused) break`. *)
onProducerpauseUnchecked ==
  /\ producerPaused' = TRUE
  /\ Record("producerpause", "handled",
            <<P("producerpause")>> \o
            (IF ProducerPauseEmits(WasPaused) THEN <<O("pause")>> ELSE <<>>), <<>>)
  /\ UNCHANGED <<closed, paused, priority, score, preferredLayers, currentLayers, listening>>

onProducerpause ==
  IF producerPaused
  THEN Break("producerpause")
  ELSE /\ producerPaused' = TRUE
       /\ Record("producerpause", "handled",
                 <<P("producerpause")>> \o
                 (IF ProducerPauseEmits(WasPaused) THEN <<O("pause")>> ELSE <<>>), <<>>)
       /\ UNCHANGED <<closed, paused, priority, score, preferredLayers, currentLayers, listening>>

(* The 'producerresume' case clearing this._paused along with              *)
(* this._producerPaused.                                                   *)
onProducerresumeClearsOwn ==
  IF ~producerPaused
  THEN Break("producerresume")
  ELSE /\ producerPaused' = FALSE
       /\ paused' = FALSE
       /\ Record("producerresume", "handled",
                 <<P("producerresume")>> \o
                 (IF ProducerResumeEmits(WasPaused, paused) THEN <<O("resume")>> ELSE <<>>), <<>>)
       /\ UNCHANGED <<closed, priority, score, preferredLayers, currentLayers, listening>>

onProducerresume ==
  IF ~producerPaused
  THEN Break("producerresume")
  ELSE /\ producerPaused' = FALSE
       /\ Record("producerresume", "handled",
                 <<P("producerresume")>> \o
                 (IF ProducerResumeEmits(WasPaused, paused) THEN <<O("resume")>> ELSE <<>>), <<>>)
       /\ UNCHANGED <<closed, paused, priority, score, preferredLayers, currentLayers, listening>>

(* The 'score' case with an edge filter: an unchanged score is not emitted. *)
onScoreFiltered(data) ==
  IF data = score
  THEN Break("score")
  ELSE /\ score' = data
       /\ Record("score", "handled", <<P("score"), O("score")>>, <<>>)
       /\ UNCHANGED <<closed, paused, producerPaused, priority, preferredLayers,
                      currentLayers, listening>>

onScore(data) ==
  /\ score' = data
  /\ Record("score", "handled", <<P("score"), O("score")>>, <<>>)
  /\ UNCHANGED <<closed, paused, producerPaused, priority, preferredLayers, currentLayers, listening>>

onLayerschange(data) ==
  /\ currentLayers' = data
  /\ Record("layerschange", "handled", <<P("layerschange"), O("layerschange")>>, <<>>)
  /\ UNCHANGED <<closed, paused, producerPaused, priority, score, preferredLayers, listening>>

onTrace ==
  /\ Record("trace", "handled", <<P("trace"), O("trace")>>, <<>>)
  /\ UNCHANGED <<state, listening>>

(* default: logger.error('ignoring unknown event "%s"', event) *)
onUnknown == Break("unknown")

(* The 'producerclose' case without its `if (this._closed) break`, in a    *)
(* listener that no close path removes (as the payload listener is).       *)
notifyProducercloseUnremoved ==
  /\ notifs < MaxNotifications
  /\ notifs' = notifs + 1
  /\ closed' = TRUE
  /\ listening' = FALSE
  /\ Record("producerclose", "handled",
            <<W("closed"), P("@producerclose"), P("producerclose"), O("close")>>, <<>>)
  /\ UNCHANGED <<paused, producerPaused, priority, score, preferredLayers, currentLayers,
                 pending>>

(* The notifications the worker pushes on the channel. *)
notifyProducerclose == Dispatch("producerclose", onProducerclose)

notifyProducerpause == Dispatch("producerpause", onProducerpause)

notifyProducerresume == Dispatch("producerresume", onProducerresume)

notifyScore(data) == Dispatch("score", onScore(data))

notifyLayerschange(data) == Dispatch("layerschange", onLayerschange(data))

notifyTrace == Dispatch("trace", onTrace)

notifyUnknown == Dispatch("unknown", onUnknown)

(* The listener on the payload channel; no close path removes it. *)
PayloadDispatch(handler) ==
  /\ notifs < MaxNotifications
  /\ notifs' = notifs + 1
  /\ UNCHANGED pending
  /\ handler

(* The 'rtp' case without its `if (this._closed) break`. *)
onRtpUnchecked ==
  /\ Record("rtp", "handled", <<P("rtp")>>, <<>>)
  /\ UNCHANGED <<state, listening>>

onRtp ==
  IF closed
  THEN /\ Record("rtp", "handled", <<>>, <<>>)
       /\ UNCHANGED <<state, listening>>
  ELSE /\ Record("rtp", "handled", <<P("rtp")>>, <<>>)
       /\ UNCHANGED <<state, listening>>

onUnknownPayload ==
  /\ Record("unknownPayload", "handled", <<>>, <<>>)
  /\ UNCHANGED <<state, listening>>

payloadRtp == PayloadDispatch(onRtp)

payloadUnknown == PayloadDispatch(onUnknownPayload)

Next ==
  \/ close
  \/ transportClosed
  \/ dump
  \/ getStats
  \/ pause
  \/ resume
  \/ \E layers \in Layers : setPreferredLayers(layers)
  \/ \E n \in Priorities : setPriority(n)
  \/ unsetPriority
  \/ requestKeyFrame
  \/ enableTraceEvent
  \/ \E r \in BagToSet(pending) : \E data \in ResponseData(r.method) : Resolve(r, data)
  \/ \E r \in BagToSet(pending) : Reject(r)
  \/ notifyProducerclose
  \/ notifyProducerpause
  \/ notifyProducerresume
  \/ \E data \in Scores : notifyScore(data)
  \/ \E data \in Layers \cup {Undefined} : notifyLayerschange(data)
  \/ notifyTrace
  \/ notifyUnknown
  \/ payloadRtp
  \/ payloadUnknown

Spec == Init /\ [][Next]_vars

(***************************************************************************)
(* Properties.                                                             *)
(***************************************************************************)

Emits(s, ev) == \E i \in DOMAIN s.emit : s.emit[i] = ev

ObserverSilent(s) == \A i \in DOMAIN s.emit : s.emit[i][1] # "observer"

CloseReturned == step.op = "close" /\ step.outcome = "returned"

(* C1, as claimed: after any close() call, in any state, exactly one       *)
(* observer 'close' has been emitted and exactly one 'consumer.close'      *)
(* request has been sent.                                                  *)
CloseAlwaysSendsOneRequest ==
  CloseReturned => observed["close"] = 1 /\ closeRequests = 1

(* C1, amended: after any close() call exactly one observer 'close' has    *)
(* been emitted; one 'consumer.close' request has been sent if close() is  *)
(* what closed the Consumer, and none if transportClosed() or              *)
(* 'producerclose' had closed it before.                                   *)
CloseIsIdempotent ==
  CloseReturned =>
    /\ observed["close"] = 1
    /\ closeRequests = emitted["@close"]
    /\ closeRequests =
         (IF emitted["transportclose"] = 0 /\ emitted["@producerclose"] = 0 THEN 1 ELSE 0)

(* A close() call on a Consumer that an earlier close() had closed. *)
SecondCloseReached ==
  CloseReturned /\ step.emit = <<>> /\ emitted["@close"] = 1

(* C2, as claimed: in every step the observer gets 'pause' exactly when    *)
(* (paused OR producerPaused) goes from false to true and 'resume' exactly *)
(* when it goes from true to false.                                        *)
EffectivePauseEdgeRule ==
  [][LET before == paused \/ producerPaused
         after == paused' \/ producerPaused'
     IN /\ Emits(step', O("pause")) <=> (~before /\ after)
        /\ Emits(step', O("resume")) <=> (before /\ ~after)]_vars

(* C3, as claimed: once closed, no step changes paused, producerPaused,    *)
(* priority, score, preferredLayers or currentLayers.                      *)
ClosedStateIsFrozen ==
  [][closed => state' = state]_vars

(* C4, as claimed: once closed, no step places a request on the channel.   *)
NoRequestAfterClosed ==
  [][closed => requests' = requests /\ pending' \sqsubseteq pending]_vars

(* C5: transportClosed() never sends a request; on an open Consumer it     *)
(* sets closed and emits 'transportclose' once on the primary emitter; no  *)
(* step ever emits 'close' on the primary emitter.                         *)
TransportClosedIsLocal ==
  /\ [](emitted["close"] = 0 /\ emitted["transportclose"] <= 1)
  /\ [][step'.op = "transportClosed" =>
          /\ requests' = requests
          /\ pending' = pending
          /\ step'.sent = <<>>
          /\ ~closed => /\ closed'
                        /\ Count(step'.emit, P("transportclose")) = 1
                        /\ emitted'["transportclose"] = 1]_vars

(* transportClosed() has closed an open Consumer. *)
TransportClosedReached ==
  step.op = "transportClosed" /\ Emits(step, P("transportclose")) /\ closed

CloseTrigger(s) ==
  \/ s.op = "close" /\ s.outcome = "returned"
  \/ s.op = "transportClosed"
  \/ s.op = "producerclose"

TriggerSignals(op) ==
  CASE op = "close" -> <<P("@close"), O("close")>>
    [] op = "transportClosed" -> <<P("transportclose"), O("close")>>
    [] op = "producerclose" -> <<P("@producerclose"), P("producerclose"), O("close")>>

(* C6: whichever of close(), transportClosed() and 'producerclose' comes   *)
(* first emits its own signals and the one observer 'close'; every later   *)
(* trigger emits nothing and fails nothing.                                *)
SingleTransitionIntoClosed ==
  /\ [](IF closed
        THEN /\ observed["close"] = 1
             /\ \/ /\ emitted["@close"] = 1 /\ emitted["transportclose"] = 0
                   /\ emitted["@producerclose"] = 0 /\ emitted["producerclose"] = 0
                \/ /\ emitted["@close"] = 0 /\ emitted["transportclose"] = 1
                   /\ emitted["@producerclose"] = 0 /\ emitted["producerclose"] = 0
                \/ /\ emitted["@close"] = 0 /\ emitted["transportclose"] = 0
                   /\ emitted["@producerclose"] = 1 /\ emitted["producerclose"] = 1
        ELSE /\ observed["close"] = 0
             /\ \A e \in PrimaryLifecycle : emitted[e] = 0)
  /\ [][CloseTrigger(step') =>
          /\ step'.outcome \in {"returned", "handled", "dropped"}
          /\ step'.emit = (IF closed THEN <<>> ELSE TriggerSignals(step'.op))
          /\ closed']_vars

(* A close trigger has come to a Consumer that another trigger had closed. *)
LaterTriggerReached ==
  /\ step.op = "transportClosed" /\ step.emit = <<>>
  /\ emitted["@close"] + emitted["@producerclose"] = 1

(* C7: from paused = producerPaused = false, pause() and its response,     *)
(* 'producerpause', resume() and its response, 'producerresume': the       *)
(* observer gets 'pause' when the own pause() completes, nothing when the  *)
(* own resume() completes, 'resume' at 'producerresume', and nothing else. *)
ScenarioEvents ==
  /\ scen \in {0, 1, 3, 4, 5} => ObserverSilent(step)
  /\ scen = 2 => step.emit = <<O("pause")>> /\ paused /\ ~producerPaused
  /\ scen = 3 => step.emit = <<P("producerpause")>> /\ paused /\ producerPaused
  /\ scen = 5 => step.emit = <<>> /\ ~paused /\ producerPaused
  /\ scen = 6 => /\ step.emit = <<P("producerresume"), O("resume")>>
                 /\ ~paused /\ ~producerPaused

ScenarioCompleted == scen = Len(Scenario)

(* C8: a 'producerclose' notification that comes to a closed Consumer      *)
(* emits nothing, changes nothing, sends nothing and fails nothing.        *)
LateProducercloseIsIgnored ==
  [][closed /\ step'.op = "producerclose" =>
       /\ step'.emit = <<>>
       /\ step'.sent = <<>>
       /\ step'.outcome \in {"dropped", "handled"}
       /\ state' = state
       /\ <<listening, pending, requests, emitted, observed>>' =
          <<listening, pending, requests, emitted, observed>>]_vars

LateProducercloseReached == step.op = "producerclose" /\ step.emit = <<>> /\ closed

(* C9: an 'rtp' payload notification is re-emitted as 'rtp' iff the        *)
(* Consumer is not closed when it is delivered; the payload listener       *)
(* always runs, closed or not.                                             *)
RtpDroppedOnceClosed ==
  [][step'.op = "rtp" =>
       /\ step'.outcome = "handled"
       /\ step'.emit = (IF closed THEN <<>> ELSE <<P("rtp")>>)
       /\ state' = state]_vars

LateRtpReached == step.op = "rtp" /\ closed /\ step.emit = <<>>

StateChangingOps == {"pause", "resume", "setPriority", "unsetPriority", "setPreferredLayers"}

(* C10: a pause(), resume(), setPriority(), unsetPriority() or             *)
(* setPreferredLayers() that the worker rejects fails to its caller (only  *)
(* close() swallows a failure), and neither of its steps (the call up to   *)
(* the await, the rejection) changes the Consumer's state or emits         *)
(* anything.  A rejected unsetPriority() is a rejected 'consumer.          *)
(* setPriority' request and is recorded under setPriority.                 *)
RejectedCallChangesNothing ==
  /\ [][step'.op \in StateChangingOps /\ step'.outcome \in {"awaiting", "rejected"} =>
          /\ state' = state
          /\ listening' = listening
          /\ step'.emit = <<>>]_vars
  /\ [][step'.outcome = "swallowed" => step'.op = "close"]_vars

RejectedPauseReached == step.op = "pause" /\ step.outcome = "rejected"

ChannelEvents ==
  {"producerclose", "producerpause", "producerresume", "score", "layerschange", "trace",
   "unknown"}

(* C11: the channel listener is registered exactly while closed is false,  *)
(* removeAllListeners has been called once if the Consumer is closed and   *)
(* never otherwise, and a channel notification is handled only by an open  *)
(* Consumer and dropped only for a closed one.                             *)
UnsubscribedExactlyWhenClosed ==
  /\ [](listening <=> ~closed)
  /\ [](removals = (IF closed THEN 1 ELSE 0))
  /\ [][step'.op \in ChannelEvents =>
          /\ step'.outcome = "handled" => ~closed /\ listening
          /\ step'.outcome = "dropped" => closed /\ ~listening /\ step'.trail = <<>>]_vars

(* A channel notification came after the close and was not delivered. *)
DroppedNotificationReached ==
  step.op \in ChannelEvents /\ step.outcome = "dropped" /\ closed /\ removals = 1

(* C12, as claimed: transportClosed() on an open Consumer sets closed,     *)
(* unsubscribes, emits the '@close' that close() emits, and the observer   *)
(* 'close' once.                                                           *)
TransportClosedEmitsAtClose ==
  (step.op = "transportClosed" /\ step.trail # <<>>) =>
    /\ closed /\ ~listening
    /\ emitted["@close"] = 1
    /\ observed["close"] = 1

(* C12, amended: transportClosed() on an open Consumer sets closed,        *)
(* unsubscribes and emits the observer 'close' once, as close() does; it   *)
(* emits 'transportclose' where close() emits '@close', and no '@close';   *)
(* it sends no request and leaves the other fields alone.                  *)
TransportClosedLocalEffects ==
  [][~closed /\ step'.op = "transportClosed" =>
       /\ closed' /\ ~listening'
       /\ removals' = removals + 1
       /\ step'.trail = <<W("closed"), Unsubscribe, P("transportclose"), O("close")>>
       /\ emitted'["@close"] = 0
       /\ observed'["close"] = 1
       /\ <<paused, producerPaused, priority, score, preferredLayers, currentLayers>>' =
          <<paused, producerPaused, priority, score, preferredLayers, currentLayers>>]_vars

TransportClosedFirstReached ==
  /\ step.op = "transportClosed" /\ step.trail # <<>>
  /\ removals = 1 /\ emitted["@close"] = 0 /\ emitted["transportclose"] = 1

(* C13: whatever becomes of the 'consumer.close' request (accepted,        *)
(* rejected, never answered), closed stays true, '@close' and the observer *)
(* 'close' have been emitted once each, the failure is swallowed, and the  *)
(* response changes nothing and emits nothing.                             *)
CloseRequestOutcomeIgnored ==
  /\ [](closeRequests = 1 => closed /\ emitted["@close"] = 1 /\ observed["close"] = 1)
  /\ [][step'.op = "close" /\ step'.outcome # "returned" =>
          /\ step'.outcome \in {"resolved", "swallowed"}
          /\ step'.trail = <<>>
          /\ state' = state
          /\ <<listening, emitted, observed, requests, removals>>' =
             <<listening, emitted, observed, requests, removals>>]_vars

CloseRequestFailedReached == step.op = "close" /\ step.outcome = "swallowed" /\ closed

(* C14: a 'score' notification to an open Consumer stores exactly the      *)
(* notified value, is emitted as 'score' on the primary emitter and on the *)
(* observer whether or not the value is new, and changes nothing else.     *)
ScoreAlwaysReemitted ==
  /\ [][listening /\ step'.op = "score" =>
          /\ step'.outcome = "handled"
          /\ step'.emit = <<P("score"), O("score")>>
          /\ <<closed, paused, producerPaused, priority, preferredLayers, currentLayers>>' =
             <<closed, paused, producerPaused, priority, preferredLayers, currentLayers>>]_vars
  /\ [][\A d \in Scores : (listening /\ notifyScore(d)) => score' = d]_vars

(* The first notification brought the score the Consumer already had. *)
SameScoreReached ==
  /\ step.op = "score" /\ step.outcome = "handled" /\ Emits(step, O("score"))
  /\ notifs = 1 /\ score = DefaultScore

SetPriorityRequest(n) == [method |-> "consumer.setPriority", data |-> n, wasPaused |-> FALSE]

(* C15: the priority is 1 until a setPriority request succeeds, and then   *)
(* it is the value of the worker's response, whatever was asked for;       *)
(* unsetPriority() sends 'consumer.setPriority' with priority 1.           *)
PriorityIsEchoed ==
  /\ [](requests = closeRequests => priority = 1)
  /\ [][priority' # priority =>
          step'.op = "setPriority" /\ step'.outcome = "resolved"]_vars
  /\ [][\A r \in BagToSet(pending) : \A d \in Priorities :
          (r.method = "consumer.setPriority" /\ Resolve(r, d)) => priority' = d]_vars
  /\ [][step'.op = "unsetPriority" =>
          /\ step'.sent = <<"consumer.setPriority">>
          /\ pending' = pending (+) SetToBag({SetPriorityRequest(1)})]_vars

PriorityChangedReached ==
  step.op = "setPriority" /\ step.outcome = "resolved" /\ priority = 2

PauseRequest(method, snapshot) == [method |-> method, data |-> Undefined, wasPaused |-> snapshot]

(* C16: pause() and resume() take the snapshot (paused OR producerPaused)  *)
(* at the call and leave paused alone until the response; on success       *)
(* pause() sets paused and emits observer 'pause' iff the snapshot was     *)
(* false, resume() clears paused and emits observer 'resume' iff the       *)
(* snapshot was true and producerPaused is false at the response.          *)
SnapshotBeforeRequest ==
  /\ [][step'.op = "pause" /\ step'.outcome = "awaiting" =>
          /\ paused' = paused
          /\ pending' =
               pending (+) SetToBag({PauseRequest("consumer.pause", paused \/ producerPaused)})]_vars
  /\ [][step'.op = "resume" /\ step'.outcome = "awaiting" =>
          /\ paused' = paused
          /\ pending' =
               pending (+) SetToBag({PauseRequest("consumer.resume", paused \/ producerPaused)})]_vars
  /\ [][\A r \in BagToSet(pending) :
          (r.method = "consumer.pause" /\ Resolve(r, Undefined)) =>
            /\ paused'
            /\ Emits(step', O("pause")) <=> ~r.wasPaused
            /\ ~Emits(step', O("resume"))]_vars
  /\ [][\A r \in BagToSet(pending) :
          (r.method = "consumer.resume" /\ Resolve(r, Undefined)) =>
            /\ ~paused'
            /\ Emits(step', O("resume")) <=> (r.wasPaused /\ ~producerPaused)
            /\ ~Emits(step', O("pause"))]_vars

(* A pause() whose snapshot was false completes after 'producerpause'. *)
StaleSnapshotReached ==
  /\ step.op = "pause" /\ step.outcome = "resolved" /\ Emits(step, O("pause"))
  /\ producerPaused

(* C17: a 'producerclose' notification to an open Consumer sets closed and *)
(* removes the channel listener, then emits '@producerclose',              *)
(* 'producerclose' and the observer 'close', in this order and once each;  *)
(* it sends no request and emits no '@close'.                              *)
ProducercloseOrder ==
  [][listening /\ ~closed /\ step'.op = "producerclose" =>
       /\ step'.outcome = "handled"
       /\ step'.trail = <<W("closed"), Unsubscribe,
                          P("@producerclose"), P("producerclose"), O("close")>>
       /\ closed' /\ ~listening'
       /\ step'.sent = <<>>
       /\ requests' = requests /\ pending' = pending
       /\ emitted'["@close"] = 0]_vars

ProducercloseHandledReached ==
  step.op = "producerclose" /\ step.trail # <<>> /\ emitted["@producerclose"] = 1

(* C18, as claimed: once the observer has got 'close', no step emits       *)
(* anything on the observer.                                               *)
ObserverSilentAfterClose ==
  [][observed["close"] > 0 => ObserverSilent(step')]_vars

(* C19: a 'producerpause' to a Consumer whose producerPaused is true, and  *)
(* a 'producerresume' to one whose producerPaused is false, change nothing *)
(* and emit nothing; any other is emitted once on the primary emitter,     *)
(* first, whether or not the observer 'pause' / 'resume' follows.          *)
DuplicatePeerNotificationsIgnored ==
  /\ [][listening /\ step'.op = "producerpause" =>
          /\ step'.outcome = "handled"
          /\ IF producerPaused
             THEN step'.trail = <<>> /\ state' = state
             ELSE /\ producerPaused'
                  /\ step'.emit \in {<<P("producerpause")>>,
                                     <<P("producerpause"), O("pause")>>}
                  /\ Emits(step', O("pause")) <=> ~paused]_vars
  /\ [][listening /\ step'.op = "producerresume" =>
          /\ step'.outcome = "handled"
          /\ IF ~producerPaused
             THEN step'.trail = <<>> /\ state' = state
             ELSE /\ ~producerPaused'
                  /\ step'.emit \in {<<P("producerresume")>>,
                                     <<P("producerresume"), O("resume")>>}
                  /\ Emits(step', O("resume")) <=> ~paused]_vars

DuplicateProducerpauseReached ==
  /\ step.op = "producerpause" /\ step.outcome = "handled" /\ step.trail = <<>>
  /\ producerPaused

(* C20: producerPaused is written by 'producerpause' and 'producerresume'  *)
(* alone, paused by the responses to pause() and resume() alone, priority  *)
(* and preferredLayers by the responses to their own requests alone, score *)
(* and currentLayers by their notifications alone; close(),                *)
(* transportClosed() and 'producerclose' write none of them.               *)
DisjointWriters ==
  [][/\ producerPaused' # producerPaused =>
          step'.op \in {"producerpause", "producerresume"} /\ step'.outcome = "handled"
     /\ paused' # paused =>
          step'.op \in {"pause", "resume"} /\ step'.outcome = "resolved"
     /\ priority' # priority =>
          step'.op = "setPriority" /\ step'.outcome = "resolved"
     /\ preferredLayers' # preferredLayers =>
          step'.op = "setPreferredLayers" /\ step'.outcome = "resolved"
     /\ score' # score => step'.op = "score" /\ step'.outcome = "handled"
     /\ currentLayers' # currentLayers =>
          step'.op = "layerschange" /\ step'.outcome = "handled"
     /\ closed' # closed => CloseTrigger(step') /\ listening /\ ~listening']_vars

(* A Consumer closes with its fields away from their initial values. *)
ClosedWithLastValuesReached ==
  /\ CloseTrigger(step) /\ step.trail # <<>>
  /\ paused /\ producerPaused /\ priority = 2
====
